---- MODULE Spec2Model ----
(***************************************************************************)
(* Model of the playground settings panel of chainlit's frontend           *)
(* (components/organisms/playground/modelSettings.tsx and the enclosing    *)
(* PromptPlayground component).                                            *)
(*                                                                         *)
(* The state is the recoil atom playgroundState (providers, prompt,        *)
(* originalPrompt), the formik state of SettingsForm, the React state of   *)
(* PromptPlayground (providersError, restoredTime), the outstanding        *)
(* getLLMProviders() promise and the pending React work (a render of the   *)
(* component tree, the [formik.values] effect, formik's validation         *)
(* promise).                                                               *)
(***************************************************************************)
EXTENDS Integers, Sequences, FiniteSets, TLC

VARIABLES
    playground,      \* recoil playgroundState: [providers, prompt, originalPrompt]
    aliased,         \* playground.prompt and playground.originalPrompt are one object
    formik,          \* useFormik state of SettingsForm (Unmounted when not rendered)
    valuesChanged,   \* formik.values changed since the [formik.values] effect last ran
    renderPending,   \* playgroundState changed since the last render
    fetch,           \* the getLLMProviders() promise: "pending", "resolved", "rejected"
    providersError,  \* PromptPlayground's providersError state is set
    restoredTime,    \* PromptPlayground's restoredTime state
    lastEvent,       \* history: the last external event handled
    history          \* history: the prompt as loaded, the provider last selected
                     \* (none after a restore or a close), and since the last
                     \* external event: the number of formik resets, whether the
                     \* event changed prompt.provider

vars == <<playground, aliased, formik, valuesChanged, renderPending, fetch,
          providersError, restoredTime, lastEvent, history>>

----------------------------------------------------------------------------
(* Bounds of the model *)

\* restore can be clicked at most this many times in a run
MaxRestores == 2

\* history.reseeds stops counting here
MaxReseedCount == 2

----------------------------------------------------------------------------
(* Values (TFormInputValue): string | number | string[] | undefined *)

Undefined == [k |-> "undefined", n |-> 0, s |-> "", l |-> <<>>]
Num(n) == [k |-> "num", n |-> n, s |-> "", l |-> <<>>]
Str(s) == [k |-> "str", n |-> 0, s |-> s, l |-> <<>>]
Tags(l) == [k |-> "tags", n |-> 0, s |-> "", l |-> l]

\* JavaScript truthiness of a value, as in `if (input.min)`
Truthy(v) ==
    /\ v # Undefined
    /\ ~(v.k = "num" /\ v.n = 0)
    /\ ~(v.k = "str" /\ v.s = "")

(* A ValueSet (ILLMSettings) is a function from the keys it holds to values *)
EmptySettings == [x \in {} |-> Undefined]

\* obj[key]: undefined for a key the object does not hold
Get(obj, key) == IF key \in DOMAIN obj THEN obj[key] ELSE Undefined

\* obj[key] = v
Put(obj, key, v) ==
    [x \in (DOMAIN obj) \cup {key} |-> IF x = key THEN v ELSE obj[x]]

(* A TFormInput *)
Input(id, type, items, min, max, initial) ==
    [id |-> id, type |-> type, items |-> items, min |-> min, max |-> max,
     initial |-> initial]

InputIds(inputs) == {inputs[i].id : i \in DOMAIN inputs}

----------------------------------------------------------------------------
(* The providers the server returns from getLLMProviders() *)

ProviderA ==
    [id |-> "A", name |-> "Provider A",
     inputs |-> << Input("shared", "slider", <<>>, Num(0), Num(2), Num(1)),
                   Input("onlyInA", "select", <<Str("x"), Str("y")>>,
                         Undefined, Undefined, Str("x")) >>]

ProviderB ==
    [id |-> "B", name |-> "Provider B",
     inputs |-> << Input("shared", "slider", <<>>, Num(-1), Undefined, Undefined),
                   Input("model", "select", <<Str("a"), Str("b")>>,
                         Undefined, Undefined, Str("a")) >>]

Registry == <<ProviderA, ProviderB>>

NoProvider == [id |-> "", name |-> "", inputs |-> <<>>]

----------------------------------------------------------------------------
(* getProviders(playground), from ./helpers *)

getProviders(pg) ==
    LET providers == pg.providers
        wanted == IF pg.prompt = <<>> THEN "" ELSE pg.prompt[1].provider
        hits == {i \in DOMAIN providers : providers[i].id = wanted}
        providerFound == hits # {}
        first == CHOOSE i \in hits : \A j \in hits : i <= j
    IN  [providers |-> providers,
         providerFound |-> providerFound,
         defined |-> providers # <<>>,
         provider |-> IF providerFound THEN providers[first]
                      ELSE IF providers # <<>> THEN providers[1]
                      ELSE NoProvider]

----------------------------------------------------------------------------
(* ModelSettings: the seed values (settings) and the yup schema *)

\* playground?.prompt?.settings || {}
currentSettings(pg) ==
    IF pg.prompt = <<>> THEN EmptySettings ELSE pg.prompt[1].settings

\* playground?.originalPrompt?.settings || {}
origSettings(pg) == pg.originalPrompt.settings

\* variant: no membership check for a select
isSettingCompatibleAny(value, input) == TRUE

isSettingCompatible(value, input) ==
    IF input.type = "select"
    THEN \E i \in DOMAIN input.items : input.items[i] = value
    ELSE TRUE

\* variant: the original value is preferred to the current one
settingValueOrigFirst(cur, orig, input) ==
    IF Get(orig, input.id) # Undefined
    THEN Get(orig, input.id)
    ELSE Get(cur, input.id)

settingValue(cur, orig, input) ==
    IF Get(cur, input.id) # Undefined
    THEN Get(cur, input.id)
    ELSE Get(orig, input.id)

\* variant: a missing or incompatible candidate never falls back on the original
SeedInputCurrentOnly(settings, cur, orig, input) ==
    LET sv == Get(cur, input.id)
    IN  IF sv # Undefined /\ isSettingCompatible(sv, input)
        THEN Put(settings, input.id, sv)
        ELSE IF input.initial # Undefined
             THEN Put(settings, input.id, input.initial)
             ELSE settings

\* variant: an incompatible current value falls back on the original one
SeedInputOriginalRescue(settings, cur, orig, input) ==
    LET sv == settingValue(cur, orig, input)
        ov == Get(orig, input.id)
    IN  IF sv # Undefined /\ isSettingCompatible(sv, input)
        THEN Put(settings, input.id, sv)
        ELSE IF ov # Undefined /\ isSettingCompatible(ov, input)
             THEN Put(settings, input.id, ov)
             ELSE IF input.initial # Undefined
                  THEN Put(settings, input.id, input.initial)
                  ELSE settings

\* one step of the reduce: what the callback does to `settings` for one input
SeedInput(settings, cur, orig, input) ==
    LET sv == settingValue(cur, orig, input)
    IN  IF sv # Undefined /\ isSettingCompatible(sv, input)
        THEN Put(settings, input.id, sv)
        ELSE IF input.initial # Undefined
             THEN Put(settings, input.id, input.initial)
             ELSE settings

RECURSIVE ReduceSettings(_, _, _, _)
ReduceSettings(inputs, cur, orig, settings) ==
    IF inputs = <<>>
    THEN settings
    ELSE ReduceSettings(Tail(inputs), cur, orig,
                        SeedInput(settings, cur, orig, Head(inputs)))

\* variant: the seed starts from a copy of the current settings
SettingsOverCurrent(inputs, cur, orig) == ReduceSettings(inputs, cur, orig, cur)

\* the `settings` object ModelSettings hands to SettingsForm
Settings(inputs, cur, orig) == ReduceSettings(inputs, cur, orig, EmptySettings)

(* A yup rule: kind "string" (yup.string()), "number" (yup.number() with   *)
(* optional min/max) or "array" (yup.array().of(yup.string()))             *)
Rule(kind, hasMin, min, hasMax, max) ==
    [kind |-> kind, hasMin |-> hasMin, min |-> min, hasMax |-> hasMax, max |-> max]

\* case 'slider'
SliderRule(input) ==
    Rule("number",
         Truthy(input.min), IF Truthy(input.min) THEN input.min.n ELSE 0,
         Truthy(input.max), IF Truthy(input.max) THEN input.max.n ELSE 0)

\* variant: an input of any other kind is given a string rule
SchemaInputDefaultString(object, input) ==
    CASE input.type = "slider" -> Put(object, input.id, SliderRule(input))
      [] input.type = "tags"   -> Put(object, input.id, Rule("array", FALSE, 0, FALSE, 0))
      [] OTHER -> Put(object, input.id, Rule("string", FALSE, 0, FALSE, 0))

\* one step of the reduce: what the switch does to `object` for one input
SchemaInput(object, input) ==
    CASE input.type = "select" -> Put(object, input.id, Rule("string", FALSE, 0, FALSE, 0))
      [] input.type = "slider" -> Put(object, input.id, SliderRule(input))
      [] input.type = "tags"   -> Put(object, input.id, Rule("array", FALSE, 0, FALSE, 0))
      [] OTHER -> object

RECURSIVE ReduceSchema(_, _)
ReduceSchema(inputs, object) ==
    IF inputs = <<>>
    THEN object
    ELSE ReduceSchema(Tail(inputs), SchemaInput(object, Head(inputs)))

EmptySchema == [x \in {} |-> Rule("string", FALSE, 0, FALSE, 0)]

Schema(inputs) == ReduceSchema(inputs, EmptySchema)

\* yup: does `rule` accept value v (an absent value passes: no rule is required())
RuleAccepts(rule, v) ==
    \/ v = Undefined
    \/ /\ rule.kind = "string"
       /\ v.k \in {"str", "num"}
    \/ /\ rule.kind = "number"
       /\ v.k = "num"
       /\ rule.hasMin => v.n >= rule.min
       /\ rule.hasMax => v.n <= rule.max
    \/ /\ rule.kind = "array"
       /\ v.k = "tags"

\* formik's errors after validating `values` against `schema`: the failing fields
Validate(schema, values) ==
    {id \in DOMAIN schema : ~RuleAccepts(schema[id], Get(values, id))}

----------------------------------------------------------------------------
(* useFormik({initialValues: settings, validationSchema: schema,           *)
(*            enableReinitialize: true})                                   *)

Unmounted ==
    [mounted |-> FALSE, initialValues |-> EmptySettings, values |-> EmptySettings,
     errors |-> {}, pendingValidation |-> <<>>]

\* the state of a freshly mounted form
useFormik(settings) ==
    [mounted |-> TRUE, initialValues |-> settings, values |-> settings,
     errors |-> {}, pendingValidation |-> <<>>]

\* variant: a reset keeps the fields the new initialValues do not name
resetFormKeeping(f, settings) ==
    [f EXCEPT !.initialValues = settings,
              !.values = [x \in (DOMAIN f.values) \cup (DOMAIN settings) |->
                             IF x \in DOMAIN settings THEN settings[x] ELSE f.values[x]],
              !.errors = {}]

\* enableReinitialize: !isEqual(initialValues.current, props.initialValues)
initialValuesChanged(f, settings) == settings # f.initialValues

\* formik's resetForm() after initialValues changed: values and errors start over
resetForm(f, settings) ==
    [f EXCEPT !.initialValues = settings, !.values = settings, !.errors = {}]

\* formik.setFieldValue(field, value, shouldValidate)
setFieldValue(f, schema, field, value, shouldValidate) ==
    LET values == Put(f.values, field, value)
    IN  [f EXCEPT !.values = values,
                  !.pendingValidation =
                      IF shouldValidate THEN <<Validate(schema, values)>> ELSE @]

----------------------------------------------------------------------------
(* setPlayground updaters *)

\* variant: the values are written to the original prompt as well
SetPromptSettingsBoth(old, values) ==
    [old EXCEPT !.prompt = <<[old.prompt[1] EXCEPT !.settings = values]>>,
                !.originalPrompt = [@ EXCEPT !.settings = values]]

\* variant: the values are patched over the previous settings
SetPromptSettingsPatch(old, values) ==
    [old EXCEPT !.prompt =
        <<[old.prompt[1] EXCEPT !.settings =
              [x \in (DOMAIN old.prompt[1].settings) \cup (DOMAIN values) |->
                  IF x \in DOMAIN values THEN values[x]
                  ELSE old.prompt[1].settings[x]]]>>]

\* (old) => ({...old, prompt: {...old.prompt!, settings: formik.values}})
SetPromptSettings(old, values) ==
    [old EXCEPT !.prompt = <<[old.prompt[1] EXCEPT !.settings = values]>>]

\* (old) => merge(cloneDeep(old), {prompt: {provider: event.target.value}})
\* cloneDeep keeps shared references shared and merge assigns in place: when
\* prompt and originalPrompt are one object, both get the provider.
MergeProvider(old, shared, value) ==
    [old EXCEPT !.prompt = <<[old.prompt[1] EXCEPT !.provider = value]>>,
                !.originalPrompt =
                    IF shared THEN [@ EXCEPT !.provider = value] ELSE @]

\* (old) => ({...old, prompt: old.originalPrompt})
RestorePrompt(old) == [old EXCEPT !.prompt = <<old.originalPrompt>>]

\* (old) => ({...old, prompt: undefined})
ClosePrompt(old) == [old EXCEPT !.prompt = <<>>]

\* variant: a prompt whose provider is unknown is moved to the first provider
SetProvidersDefaulting(old, providers) ==
    LET known == {providers[i].id : i \in DOMAIN providers}
    IN  [old EXCEPT !.providers = providers,
                    !.prompt = IF old.prompt # <<>> /\ providers # <<>>
                                  /\ old.prompt[1].provider \notin known
                               THEN <<[old.prompt[1] EXCEPT !.provider = providers[1].id]>>
                               ELSE @]

\* variant: the updater spreads the state captured at the first render, where
\* the prompt is the prompt as loaded
SetProvidersStale(old, providers) ==
    [old EXCEPT !.providers = providers, !.prompt = <<old.originalPrompt>>]

\* (old) => ({...old, providers: res.providers})
SetProviders(old, providers) == [old EXCEPT !.providers = providers]

----------------------------------------------------------------------------
(* History *)

\* playground.prompt?.provider
promptProvider(pg) == IF pg.prompt = <<>> THEN <<>> ELSE <<pg.prompt[1].provider>>

\* the history after an external event took playgroundState from old to new
AfterEvent(h, old, new) ==
    [h EXCEPT !.reseeds = 0,
              !.providerChanged = (promptProvider(new) # promptProvider(old))]

\* the history after formik reset the form
Reseeded(h) ==
    [h EXCEPT !.reseeds = IF @ < MaxReseedCount THEN @ + 1 ELSE @]

----------------------------------------------------------------------------
(* Derived views *)

\* the provider whose inputs SettingsForm shows
provider == getProviders(playground).provider

\* PromptPlayground renders the dialog, and ModelSettings renders SettingsForm
Shown(pg) == pg.prompt # <<>> /\ getProviders(pg).defined

\* variant: the Alert is built only for an id that was set and not found
providerWarningWhenSpecified(pg) ==
    LET gp == getProviders(pg)
    IN  IF ~gp.providerFound /\ promptProvider(pg) \notin {<<>>, <<"">>}
        THEN <<[text |-> "not found", missing |-> promptProvider(pg),
                substitute |-> gp.provider.name]>>
        ELSE <<>>

\* the Alert SettingsForm builds when the prompt's provider was not found:
\* "<id> provider is not found, using <name> instead." or
\* "Provider not specified, using <name> instead."
providerWarning(pg) ==
    LET gp == getProviders(pg)
    IN  IF ~gp.providerFound
        THEN IF promptProvider(pg) \notin {<<>>, <<"">>}
             THEN <<[text |-> "not found", missing |-> promptProvider(pg),
                     substitute |-> gp.provider.name]>>
             ELSE <<[text |-> "not specified", missing |-> <<>>,
                     substitute |-> gp.provider.name]>>
        ELSE <<>>

\* the warning on screen: SettingsForm renders it, when SettingsForm is rendered
DisplayedWarning ==
    IF Shown(playground) THEN providerWarning(playground) ELSE <<>>

\* no React work is pending: the next thing to happen is an external event
Idle ==
    /\ ~renderPending
    /\ ~valuesChanged
    /\ formik.pendingValidation = <<>>

\* values the widgets of FormInput can produce for an input
SliderValues == {Num(-2), Num(-1), Num(1), Num(3)}

WidgetValues(input) ==
    CASE input.type = "select" -> {input.items[i] : i \in DOMAIN input.items}
      [] input.type = "slider" -> SliderValues
      [] input.type = "tags"   -> {Tags(<<>>), Tags(<<"t">>)}
      [] OTHER -> {Str("free")}

----------------------------------------------------------------------------
(* The prompts the playground can be opened with *)

InitProviders == {"", "A", "B", "gone"}

InitSettings ==
    { EmptySettings,
      ("shared" :> Num(3)) @@ ("onlyInA" :> Str("y")),
      ("shared" :> Num(1)) @@ ("model" :> Str("c")),
      ("model" :> Str("b")) @@ ("legacy" :> Str("z")) }

\* playgroundState.providers may already hold the result of an earlier fetch:
\* the atom outlives PromptPlayground, whose every mount fetches again
Init ==
    /\ \E p \in InitProviders, s \in InitSettings, known \in {<<>>, Registry} :
          /\ playground = [providers |-> known,
                           prompt |-> <<[provider |-> p, settings |-> s]>>,
                           originalPrompt |-> [provider |-> p, settings |-> s]]
          /\ history = [loaded |-> [provider |-> p, settings |-> s],
                        selected |-> <<>>,
                        reseeds |-> 0, providerChanged |-> FALSE]
    /\ aliased = FALSE
    /\ formik = Unmounted
    /\ valuesChanged = FALSE
    /\ renderPending = TRUE
    /\ fetch = "pending"
    /\ providersError = FALSE
    /\ restoredTime = 0
    /\ lastEvent = "open"

----------------------------------------------------------------------------
(* React work *)

\* A render of PromptPlayground / ModelSettings / SettingsForm, with formik's
\* enableReinitialize effect.
RenderModelSettings ==
    /\ renderPending
    /\ renderPending' = FALSE
    /\ LET gp == getProviders(playground)
           settings == Settings(gp.provider.inputs, currentSettings(playground),
                                origSettings(playground))
       IN  IF ~Shown(playground)
           THEN /\ formik' = Unmounted
                /\ valuesChanged' = FALSE
                /\ UNCHANGED history
           ELSE IF ~formik.mounted
           THEN /\ formik' = useFormik(settings)
                /\ valuesChanged' = TRUE
                /\ UNCHANGED history
           ELSE IF initialValuesChanged(formik, settings)
           THEN /\ formik' = resetForm(formik, settings)
                /\ valuesChanged' = TRUE
                /\ history' = Reseeded(history)
           ELSE UNCHANGED <<formik, valuesChanged, history>>
    /\ UNCHANGED <<playground, aliased, fetch, providersError, restoredTime, lastEvent>>

\* useEffect(() => setPlayground(...), [formik.values])
WriteBack ==
    /\ formik.mounted
    /\ valuesChanged
    /\ playground.prompt # <<>>
    /\ playground' = SetPromptSettings(playground, formik.values)
    /\ aliased' = FALSE
    /\ valuesChanged' = FALSE
    /\ renderPending' = TRUE
    /\ UNCHANGED <<formik, fetch, providersError, restoredTime, lastEvent, history>>

\* formik's validation promise settles: SET_ERRORS
ValidationDone ==
    /\ formik.mounted
    /\ formik.pendingValidation # <<>>
    /\ formik' = [formik EXCEPT !.errors = formik.pendingValidation[1],
                                !.pendingValidation = <<>>]
    /\ UNCHANGED <<playground, aliased, valuesChanged, renderPending, fetch,
                   providersError, restoredTime, lastEvent, history>>

----------------------------------------------------------------------------
(* External events *)

\* a FormInput widget calls setField / onChange
EditField ==
    /\ Idle
    /\ formik.mounted
    /\ \E i \in DOMAIN provider.inputs, shouldValidate \in BOOLEAN :
         \E value \in WidgetValues(provider.inputs[i]) :
            /\ value # Get(formik.values, provider.inputs[i].id)
            /\ formik' = setFieldValue(formik, Schema(provider.inputs),
                                       provider.inputs[i].id, value, shouldValidate)
    /\ valuesChanged' = TRUE
    /\ lastEvent' = "edit"
    /\ history' = AfterEvent(history, playground, playground)
    /\ UNCHANGED <<playground, aliased, renderPending, fetch, providersError,
                   restoredTime>>

\* the provider SelectInput changes
onSelectedProviderChange ==
    /\ Idle
    /\ formik.mounted
    /\ \E i \in DOMAIN playground.providers :
          /\ playground.providers[i].id # provider.id
          /\ playground' = MergeProvider(playground, aliased, playground.providers[i].id)
    /\ renderPending' = TRUE
    /\ lastEvent' = "switch"
    /\ history' = [AfterEvent(history, playground, playground')
                      EXCEPT !.selected = promptProvider(playground')]
    /\ UNCHANGED <<aliased, formik, valuesChanged, fetch, providersError, restoredTime>>

restore ==
    /\ Idle
    /\ playground.prompt # <<>>
    /\ restoredTime < MaxRestores
    /\ playground' = RestorePrompt(playground)
    /\ aliased' = TRUE
    /\ restoredTime' = restoredTime + 1
    /\ renderPending' = TRUE
    /\ lastEvent' = "restore"
    /\ history' = [AfterEvent(history, playground, playground')
                      EXCEPT !.selected = <<>>]
    /\ UNCHANGED <<formik, valuesChanged, fetch, providersError>>

handleClose ==
    /\ Idle
    /\ playground.prompt # <<>>
    /\ playground' = ClosePrompt(playground)
    /\ aliased' = FALSE
    /\ renderPending' = TRUE
    /\ lastEvent' = "close"
    /\ history' = [AfterEvent(history, playground, playground')
                      EXCEPT !.selected = <<>>]
    /\ UNCHANGED <<formik, valuesChanged, fetch, providersError, restoredTime>>

\* client.getLLMProviders().then(...)
GetProvidersResolved ==
    /\ fetch = "pending"
    /\ fetch' = "resolved"
    /\ playground' = SetProviders(playground, Registry)
    /\ renderPending' = TRUE
    /\ lastEvent' = "fetch"
    /\ history' = AfterEvent(history, playground, playground')
    /\ UNCHANGED <<aliased, formik, valuesChanged, providersError, restoredTime>>

\* variant: a failed fetch forgets the providers
GetProvidersRejectedClearing ==
    /\ fetch = "pending"
    /\ fetch' = "rejected"
    /\ providersError' = TRUE
    /\ renderPending' = TRUE
    /\ lastEvent' = "fetchError"
    /\ playground' = [playground EXCEPT !.providers = <<>>]
    /\ history' = AfterEvent(history, playground, playground')
    /\ UNCHANGED <<aliased, formik, valuesChanged, restoredTime>>

\* client.getLLMProviders().catch((err) => setProvidersError(err))
GetProvidersRejected ==
    /\ fetch = "pending"
    /\ fetch' = "rejected"
    /\ providersError' = TRUE
    /\ renderPending' = TRUE
    /\ lastEvent' = "fetchError"
    /\ history' = AfterEvent(history, playground, playground)
    /\ UNCHANGED <<playground, aliased, formik, valuesChanged, restoredTime>>

Next ==
    \/ RenderModelSettings
    \/ WriteBack
    \/ ValidationDone
    \/ EditField
    \/ onSelectedProviderChange
    \/ restore
    \/ handleClose
    \/ GetProvidersResolved
    \/ GetProvidersRejected

Spec == Init /\ [][Next]_vars

----------------------------------------------------------------------------
(* The resolver on arbitrary inputs: one provider with a catalog drawn from *)
(* Catalogs, current and original settings drawn from ValueSets; the only   *)
(* step is the render that resolves the seed.                               *)

ResolveTypes == {"select", "slider", "text"}
ResolveInitials == {Undefined, Str("a"), Str("c")}
ResolveValues == {Str("a"), Str("c")}
ResolveKeys == {"p", "q", "z"}

ResolveInputs(id) ==
    {Input(id, type, IF type = "select" THEN <<Str("a"), Str("b")>> ELSE <<>>,
           Undefined, Undefined, initial) :
        type \in ResolveTypes, initial \in ResolveInitials}

Catalogs ==
    {<<p>> : p \in ResolveInputs("p")}
    \cup {<<p, q>> : p \in ResolveInputs("p"), q \in ResolveInputs("q")}

ValueSets == UNION {[S -> ResolveValues] : S \in SUBSET ResolveKeys}

InitResolve ==
    /\ \E catalog \in Catalogs, cur \in ValueSets, orig \in ValueSets :
          /\ playground = [providers |-> <<[id |-> "P", name |-> "P", inputs |-> catalog]>>,
                           prompt |-> <<[provider |-> "P", settings |-> cur]>>,
                           originalPrompt |-> [provider |-> "P", settings |-> orig]]
          /\ history = [loaded |-> [provider |-> "P", settings |-> orig],
                        selected |-> <<>>,
                        reseeds |-> 0, providerChanged |-> FALSE]
    /\ aliased = FALSE
    /\ formik = Unmounted
    /\ valuesChanged = FALSE
    /\ renderPending = TRUE
    /\ fetch = "resolved"
    /\ providersError = FALSE
    /\ restoredTime = 0
    /\ lastEvent = "open"

NextResolve == RenderModelSettings

SpecResolve == InitResolve /\ [][NextResolve]_vars

\* the same, followed by the write-back of the seeded form and the render
\* the write-back causes
NextResolveSync ==
    \/ RenderModelSettings
    \/ WriteBack

SpecResolveSync == InitResolve /\ [][NextResolveSync]_vars

----------------------------------------------------------------------------
(* The schema on arbitrary catalogs: one provider whose two inputs are      *)
(* drawn with every kind the switch knows and one it does not; the form is  *)
(* rendered, written back, edited and validated.                            *)

SchemaBounds == {Undefined, Num(0), Num(1), Num(2)}

TemperatureInputs ==
    {Input("temperature", "slider", <<>>, min, max, initial) :
        min \in SchemaBounds \ {Num(2)}, max \in {Undefined, Num(2)},
        initial \in {Undefined, Num(1)}}
    \cup {Input("temperature", "text", <<>>, Undefined, Undefined, Undefined)}

ModelInputs ==
    { Input("model", "select", <<Str("a"), Str("b")>>, Undefined, Undefined, Str("a")),
      Input("model", "tags", <<>>, Undefined, Undefined, Undefined),
      Input("model", "text", <<>>, Undefined, Undefined, Str("a")) }

SchemaCatalogs == {<<p, q>> : p \in TemperatureInputs, q \in ModelInputs}

SchemaCurrent ==
    {EmptySettings, "temperature" :> Num(3), "temperature" :> Num(-1)}

SchemaOriginal ==
    {EmptySettings, "model" :> Str("c"),
     ("model" :> Str("c")) @@ ("temperature" :> Num(3))}

InitSchema ==
    /\ \E inputs \in SchemaCatalogs, cur \in SchemaCurrent, orig \in SchemaOriginal :
          /\ playground = [providers |-> <<[id |-> "P", name |-> "P", inputs |-> inputs]>>,
                           prompt |-> <<[provider |-> "P", settings |-> cur]>>,
                           originalPrompt |-> [provider |-> "P", settings |-> orig]]
          /\ history = [loaded |-> [provider |-> "P", settings |-> orig],
                        selected |-> <<>>,
                        reseeds |-> 0, providerChanged |-> FALSE]
    /\ aliased = FALSE
    /\ formik = Unmounted
    /\ valuesChanged = FALSE
    /\ renderPending = TRUE
    /\ fetch = "resolved"
    /\ providersError = FALSE
    /\ restoredTime = 0
    /\ lastEvent = "open"

NextSchema ==
    \/ RenderModelSettings
    \/ WriteBack
    \/ ValidationDone
    \/ EditField

SpecSchema == InitSchema /\ [][NextSchema]_vars

----------------------------------------------------------------------------
(* Vocabulary of the properties *)

\* SharedSessionState.currentValues, .originalValues and .activeProviderId
currentValues == currentSettings(playground)
originalValues == origSettings(playground)
activeProviderId ==
    IF playground.prompt = <<>> THEN <<>> ELSE <<playground.prompt[1].provider>>
currentValuesField ==
    IF playground.prompt = <<>> THEN <<>> ELSE <<playground.prompt[1].settings>>

\* the catalog of the displayed provider and the seed resolved at the last render
catalog == provider.inputs
seed == formik.initialValues

\* compatibility as the resolver's contract states it
CompatibleWith(v, p) ==
    /\ v # Undefined
    /\ p.type = "select" => v \in {p.items[i] : i \in DOMAIN p.items}

Resolved == formik.mounted /\ ~renderPending

----------------------------------------------------------------------------
(* C1: a defined, compatible current value is the resolved value of its     *)
(* parameter, whatever the original value and the declared initial are.     *)
C1_CurrentWins ==
    Resolved =>
        \A i \in DOMAIN catalog :
            CompatibleWith(Get(currentValues, catalog[i].id), catalog[i])
                => Get(seed, catalog[i].id) = Get(currentValues, catalog[i].id)

C1_Witness ==
    /\ Resolved
    /\ \E i \in DOMAIN catalog :
          /\ CompatibleWith(Get(currentValues, catalog[i].id), catalog[i])
          /\ CompatibleWith(Get(originalValues, catalog[i].id), catalog[i])
          /\ Get(originalValues, catalog[i].id) # Get(currentValues, catalog[i].id)
          /\ catalog[i].initial \notin {Undefined, Get(currentValues, catalog[i].id)}
          /\ Get(seed, catalog[i].id) = Get(currentValues, catalog[i].id)

(* C2: with no current value, a defined, compatible original value is the   *)
(* resolved value, whatever the declared initial is.                        *)
C2_OriginalWhenNoCurrent ==
    Resolved =>
        \A i \in DOMAIN catalog :
            (/\ Get(currentValues, catalog[i].id) = Undefined
             /\ CompatibleWith(Get(originalValues, catalog[i].id), catalog[i]))
                => Get(seed, catalog[i].id) = Get(originalValues, catalog[i].id)

C2_Witness ==
    /\ Resolved
    /\ \E i \in DOMAIN catalog :
          /\ catalog[i].id \notin DOMAIN currentValues
          /\ CompatibleWith(Get(originalValues, catalog[i].id), catalog[i])
          /\ catalog[i].initial \notin {Undefined, Get(originalValues, catalog[i].id)}
          /\ Get(seed, catalog[i].id) = Get(originalValues, catalog[i].id)

(* C3: for a select none of whose candidates (current, original) is one of  *)
(* its items, the resolved value is the declared initial, and the key is    *)
(* absent from the seed when no initial is declared.                        *)
C3_StaleSelectFallsBack ==
    Resolved =>
        \A i \in DOMAIN catalog :
            (/\ catalog[i].type = "select"
             /\ ~CompatibleWith(Get(currentValues, catalog[i].id), catalog[i])
             /\ ~CompatibleWith(Get(originalValues, catalog[i].id), catalog[i]))
                => IF catalog[i].initial # Undefined
                   THEN Get(seed, catalog[i].id) = catalog[i].initial
                   ELSE catalog[i].id \notin DOMAIN seed

C3_Witness ==
    /\ Resolved
    /\ \E i, j \in DOMAIN catalog :
          /\ catalog[i].type = "select" /\ catalog[j].type = "select"
          /\ catalog[i].id \in DOMAIN currentValues
          /\ ~CompatibleWith(Get(currentValues, catalog[i].id), catalog[i])
          /\ catalog[i].initial = Undefined
          /\ catalog[i].id \notin DOMAIN seed
          /\ catalog[j].id \notin DOMAIN currentValues
          /\ catalog[j].id \in DOMAIN originalValues
          /\ ~CompatibleWith(Get(originalValues, catalog[j].id), catalog[j])
          /\ catalog[j].initial # Undefined
          /\ Get(seed, catalog[j].id) = catalog[j].initial

(* C4: every key of the resolved seed is the id of a parameter of the       *)
(* catalog: keys of current or original outside the catalog do not leak.    *)
C4_NoKeyLeak ==
    Resolved => DOMAIN seed \subseteq InputIds(catalog)

C4_Witness ==
    /\ Resolved
    /\ seed # EmptySettings
    /\ (DOMAIN currentValues) \ InputIds(catalog) # {}
    /\ (DOMAIN originalValues) \ InputIds(catalog) # {}
    /\ DOMAIN currentValues # DOMAIN originalValues

----------------------------------------------------------------------------
\* n is within the bounds the slider p declares
WithinDeclaredBounds(p, n) ==
    /\ p.min # Undefined => n >= p.min.n
    /\ p.max # Undefined => n <= p.max.n

(* C5: the schema rule of a slider accepts a number v exactly when v is not *)
(* below a declared min and not above a declared max, for every declared    *)
(* bound, 0 and negative bounds included.  Stated on the validation formik  *)
(* starts when a field is edited.                                           *)
C5_SliderRuleIsDeclaredBounds ==
    (formik.mounted /\ valuesChanged /\ formik.pendingValidation # <<>>) =>
        \A i \in DOMAIN catalog :
            (catalog[i].type = "slider" /\ Get(formik.values, catalog[i].id).k = "num")
                => ((catalog[i].id \notin formik.pendingValidation[1])
                        <=> WithinDeclaredBounds(catalog[i],
                                                 Get(formik.values, catalog[i].id).n))

C7_OriginalValuesFixed ==
    [][originalValues' = originalValues]_vars

C7_Witness ==
    /\ restoredTime > 0
    /\ lastEvent = "edit"
    /\ Idle
    /\ currentValues # originalValues
    /\ provider.id # playground.originalPrompt.provider

(* C8: only the write-back changes currentValues and only a provider        *)
(* selection changes activeProviderId.                                      *)
C8_SoleWriters ==
    [][ /\ currentValuesField' # currentValuesField => WriteBack
        /\ activeProviderId' # activeProviderId => onSelectedProviderChange
      ]_vars

(* C8, amended: currentValues is changed only by the write-back, restore    *)
(* and close; activeProviderId only by a provider selection, restore and    *)
(* close.                                                                   *)
C8_Writers ==
    [][ /\ currentValuesField' # currentValuesField
            => (WriteBack \/ restore \/ handleClose)
        /\ activeProviderId' # activeProviderId
            => (onSelectedProviderChange \/ restore \/ handleClose)
      ]_vars

C8_Witness ==
    /\ lastEvent = "restore"
    /\ renderPending
    /\ activeProviderId = <<"B">>
    /\ "onlyInA" \in DOMAIN formik.values
    /\ formik.values # currentValues

(* C9: the write-back replaces currentValues by the whole of the form's     *)
(* values and leaves activeProviderId, originalValues and the providers     *)
(* as they were.                                                            *)
C9_WriteBackReplaces ==
    [][ WriteBack =>
            /\ currentValuesField' = <<formik.values>>
            /\ activeProviderId' = activeProviderId
            /\ originalValues' = originalValues
            /\ playground'.providers = playground.providers
      ]_vars

C9_Witness ==
    /\ formik.mounted
    /\ ~valuesChanged
    /\ renderPending
    /\ lastEvent = "switch"
    /\ currentValues = formik.values
    /\ "legacy" \in DOMAIN originalValues
    /\ "legacy" \notin DOMAIN currentValues

(* C10: the step in which the providers fetch fails changes neither the     *)
(* form nor the session state; it sets the error that is shown, and what    *)
(* was displayed stays displayed.                                           *)
C10_FetchFailureFrame ==
    [][ (fetch = "pending" /\ fetch' = "rejected") =>
            /\ formik' = formik
            /\ playground' = playground
            /\ providersError'
            /\ Shown(playground') <=> Shown(playground)
      ]_vars

C10_Witness ==
    /\ fetch = "rejected"
    /\ providersError
    /\ lastEvent = "fetchError"
    /\ formik.mounted
    /\ playground.providers = Registry
    /\ currentValues # originalValues

----------------------------------------------------------------------------
\* the provider of the registry with this id
ProviderById(id) ==
    Registry[CHOOSE i \in DOMAIN Registry : Registry[i].id = id]

(* C11: a providers fetch that completes after a provider switch is not     *)
(* applied over it: once the fetch has completed, activeProviderId is the   *)
(* provider of the last switch and the form shows that provider's           *)
(* parameters.                                                              *)
C11_LastSwitchWins ==
    (fetch # "pending" /\ Idle /\ formik.mounted /\ history.selected # <<>>) =>
        /\ activeProviderId = history.selected
        /\ provider = ProviderById(history.selected[1])
        /\ formik.values = Settings(ProviderById(history.selected[1]).inputs,
                                    currentValues, originalValues)
        /\ DOMAIN formik.values \subseteq InputIds(ProviderById(history.selected[1]).inputs)

C11_Witness ==
    /\ fetch = "resolved"
    /\ lastEvent = "fetch"
    /\ Idle
    /\ formik.mounted
    /\ history.selected = <<"B">>
    /\ history.loaded.provider = "A"
    /\ activeProviderId = <<"B">>
    /\ "model" \in DOMAIN formik.values

----------------------------------------------------------------------------
(* C12: every change of activeProviderId is followed by exactly one re-seed *)
(* of the form, and what is written back after it is the seed, not an edit  *)
(* made against the previous provider's form.                               *)
C12_ExactlyOneReseed ==
    /\ (history.providerChanged /\ Idle /\ formik.mounted)
           => history.reseeds = 1
    /\ (history.providerChanged /\ formik.mounted /\ valuesChanged)
           => formik.values = formik.initialValues

----------------------------------------------------------------------------
\* the kinds the schema switch has a case for
RecognizedKinds == {"select", "slider", "tags"}

(* C13: the schema built from a catalog has an entry for an id exactly when *)
(* the catalog has a parameter of that id with a recognized kind (select,   *)
(* slider, tags), one entry per such parameter; a parameter of another kind *)
(* has no entry, and no value given to it ever puts it among the form's     *)
(* errors.                                                                  *)
C13_SchemaEntries ==
    formik.mounted =>
        /\ DOMAIN Schema(catalog)
               = {catalog[i].id : i \in {j \in DOMAIN catalog :
                                            catalog[j].type \in RecognizedKinds}}
        /\ Cardinality(DOMAIN Schema(catalog))
               = Cardinality({j \in DOMAIN catalog : catalog[j].type \in RecognizedKinds})
        /\ \A i \in DOMAIN catalog :
              catalog[i].type \notin RecognizedKinds
                  => /\ catalog[i].id \notin formik.errors
                     /\ formik.pendingValidation # <<>>
                            => catalog[i].id \notin formik.pendingValidation[1]

C13_Witness ==
    /\ formik.mounted
    /\ lastEvent = "edit"
    /\ Idle
    /\ catalog[1].type = "slider"
    /\ catalog[2].type = "text"
    /\ Get(formik.values, "model") = Str("free")
    /\ formik.errors = {"temperature"}
    /\ DOMAIN Schema(catalog) = {"temperature"}

----------------------------------------------------------------------------
\* the value the resolver's contract takes as candidate for parameter p
Candidate(p) ==
    IF Get(currentValues, p.id) # Undefined
    THEN Get(currentValues, p.id)
    ELSE Get(originalValues, p.id)

(* C14: resolution and validation are distinct passes: a number that is the *)
(* current (else original) value of a slider is carried into the seed as it *)
(* is, inside the declared range or not, and validating the seed against    *)
(* the schema flags that slider exactly when the number is outside          *)
(* [min, max].                                                              *)
C14_CarriedThenFlagged ==
    Resolved =>
        \A i \in DOMAIN catalog :
            (catalog[i].type = "slider" /\ Candidate(catalog[i]).k = "num")
                => /\ Get(seed, catalog[i].id) = Candidate(catalog[i])
                   /\ (catalog[i].id \in Validate(Schema(catalog), seed))
                          <=> ~WithinDeclaredBounds(catalog[i], Candidate(catalog[i]).n)

----------------------------------------------------------------------------
\* the ids of the known providers
KnownIds == {playground.providers[i].id : i \in DOMAIN playground.providers}

\* a prompt is open and its provider id is not set or not among the known ones
ProviderAbsent ==
    /\ playground.prompt # <<>>
    /\ playground.prompt[1].provider \notin KnownIds

\* the panel shows the default provider's parameters under a warning that
\* names the substitute, and the missing id when one was set
DefaultShownWithWarning ==
    /\ playground.providers # <<>>
    /\ formik.mounted
    /\ provider = playground.providers[1]
    /\ DOMAIN formik.values \subseteq InputIds(playground.providers[1].inputs)
    /\ DisplayedWarning # <<>>
    /\ DisplayedWarning[1].substitute = playground.providers[1].name
    /\ IF playground.prompt[1].provider # ""
       THEN /\ DisplayedWarning[1].text = "not found"
            /\ DisplayedWarning[1].missing = <<playground.prompt[1].provider>>
       ELSE DisplayedWarning[1].text = "not specified"

(* C15: in every rendered state, the provider id of the session state is    *)
(* absent from the known providers (or not set) exactly when a warning is   *)
(* displayed, and then the panel shows the default provider's parameters    *)
(* and the warning names the missing id, if set, and the substitute.        *)
C15_WarningIffAbsent ==
    ~renderPending =>
        /\ ProviderAbsent <=> DisplayedWarning # <<>>
        /\ ProviderAbsent => DefaultShownWithWarning

(* C15, amended: in every rendered state with at least one known provider,  *)
(* the provider id of the session state is absent from the known providers  *)
(* (or not set) exactly when a warning is displayed, and then the panel     *)
(* shows the default provider's parameters and the warning names the        *)
(* missing id, if set, and the substitute; while no provider is known,      *)
(* neither panel nor warning is displayed.                                  *)
C15_WarningIffAbsentAmongKnown ==
    ~renderPending =>
        /\ (ProviderAbsent /\ playground.providers # <<>>) <=> DisplayedWarning # <<>>
        /\ (ProviderAbsent /\ playground.providers # <<>>) => DefaultShownWithWarning
        /\ playground.providers = <<>> => ~formik.mounted

C15_Witness ==
    /\ ~renderPending
    /\ activeProviderId = <<"gone">>
    /\ playground.providers = Registry
    /\ formik.mounted
    /\ provider = ProviderA
    /\ DisplayedWarning = <<[text |-> "not found", missing |-> <<"gone">>,
                             substitute |-> ProviderA.name]>>

----------------------------------------------------------------------------
(* C17: when the current value of a parameter is defined but incompatible   *)
(* with it, the original value is not consulted, compatible or not: the     *)
(* resolved value is the declared initial, and the key is absent from the   *)
(* seed when no initial is declared.                                        *)
C17_IncompatibleCurrentSkipsOriginal ==
    Resolved =>
        \A i \in DOMAIN catalog :
            (/\ Get(currentValues, catalog[i].id) # Undefined
             /\ ~CompatibleWith(Get(currentValues, catalog[i].id), catalog[i]))
                => /\ Get(seed, catalog[i].id) = catalog[i].initial
                   /\ catalog[i].initial = Undefined => catalog[i].id \notin DOMAIN seed

C17_Witness ==
    /\ Resolved
    /\ \E i \in DOMAIN catalog :
          /\ Get(currentValues, catalog[i].id) = Str("c")
          /\ ~CompatibleWith(Get(currentValues, catalog[i].id), catalog[i])
          /\ CompatibleWith(Get(originalValues, catalog[i].id), catalog[i])
          /\ Get(originalValues, catalog[i].id) = Str("a")
          /\ catalog[i].initial = Undefined
          /\ catalog[i].id \notin DOMAIN seed

(* C18: the resolved seed is a fixpoint of resolution when fed back as the  *)
(* current values, so the render that follows the write-back of a freshly   *)
(* seeded form does not seed the form a second time.                        *)
C18_SeedIsFixpoint ==
    Resolved =>
        /\ Settings(catalog, seed, originalValues) = seed
        /\ history.reseeds = 0

----------------------------------------------------------------------------
(* C19: when the reactive loop started by an event has come to rest, the    *)
(* form's values are SharedSessionState.currentValues and are the seed      *)
(* resolved from the active catalog, currentValues and originalValues.      *)
C19_QuiescentInSync ==
    (Idle /\ formik.mounted) =>
        /\ formik.values = currentValues
        /\ formik.values = Settings(catalog, currentValues, originalValues)

----------------------------------------------------------------------------
\* the catalog the panel shows for the provider of the prompt as it was loaded
LoadedCatalog ==
    getProviders([playground EXCEPT !.prompt = <<history.loaded>>]).provider.inputs

(* C20: a restore sets activeProviderId and currentValues back to those of  *)
(* the prompt as it was loaded, and once the loop has come to rest the form *)
(* holds the seed resolved from the loaded provider's catalog with the      *)
(* loaded values as both current and original: nothing done before the      *)
(* restore is left in the form or in currentValues.                         *)
C20_RestoreGoesBack ==
    lastEvent = "restore" =>
        /\ activeProviderId = <<history.loaded.provider>>
        /\ originalValues = history.loaded.settings
        /\ currentValues \in {history.loaded.settings, formik.values}
        /\ (Idle /\ formik.mounted) =>
              formik.values = Settings(LoadedCatalog, history.loaded.settings,
                                       history.loaded.settings)

====
